---- MODULE Spec2Model ----
(***************************************************************************)
(* Model of wbparser.py: the WildBerriesParser object, the two remote      *)
(* endpoints it reads and the two sinks it writes.                         *)
(*                                                                         *)
(* A category node is a record with a "name" field, an optional "url"      *)
(* field and an optional "children" field (a sequence of nodes), as the    *)
(* JSON objects of the catalogue are for the code.                         *)
(***************************************************************************)
EXTENDS Integers, Sequences, FiniteSets, Bags, TLC

VARIABLES
    product_cards,   \* self.product_cards
    db,              \* records chroma_db.insert_product_card accepted, in order
    xlsx,            \* contents of wb_product_cards.xlsx, <<>> while there is none
    top,             \* the method called on the parser from outside, or "idle"
    pc,              \* position inside the running method
    catalogue,       \* parse_product_cards' local: the flattened catalogue
    idx,             \* position of the running for loop (category or product card)
    exc,             \* the exception the last call ended with, or "none"
    http_log,        \* requests of the current outermost call with their replies
    writes,          \* sink operations of the current outermost call, in order
    stages,          \* pipeline stages the current outermost call entered
    ncalls,          \* number of outermost calls started
    tree,            \* argument of a direct process_catalogue call
    flattened_catalogue  \* its return value

vars == <<product_cards, db, xlsx, top, pc, catalogue, idx, exc,
          http_log, writes, stages, ncalls, tree, flattened_catalogue>>

-----------------------------------------------------------------------------
(* Bounds of the inputs. *)

MaxNodes == 4        \* nodes of a tree handed to process_catalogue directly
MaxCatNodes == 3     \* nodes of a catalogue the catalogue endpoint serves
MaxCards == 2        \* product records one parser accumulates
MaxCalls == 2        \* outermost method calls on one parser

Names == {"a", "b"}
Urls == {"u", "v"}
Products == {"p1", "p2"}

None == "none"

-----------------------------------------------------------------------------
(* Category trees. *)

\* Nodes without children: a leaf proper, or a node whose children
\* collection is present and empty (with or without a url of its own).
ChildlessNodes(names, urls) ==
    [name : names, url : Urls]
      \cup [name : names, children : {<<>>}]
      \cup [name : names, url : urls, children : {<<>>}]

\* A node over a non-empty sequence of children.
ParentNodes(names, kids) ==
    [name : names, children : {kids}]

\* Trees of n nodes, and sequences of trees of n nodes in all; `urls` are
\* the urls a node with an empty children collection may carry besides.
RECURSIVE TreesOfSize(_, _, _), ForestsOfSize(_, _, _)
TreesOfSize(names, urls, n) ==
    IF n = 1 THEN ChildlessNodes(names, urls)
    ELSE UNION { ParentNodes(names, f) : f \in ForestsOfSize(names, urls, n - 1) }

ForestsOfSize(names, urls, n) ==
    IF n = 0 THEN { <<>> }
    ELSE UNION { { <<t>> \o f : t \in TreesOfSize(names, urls, k),
                                f \in ForestsOfSize(names, urls, n - k) } : k \in 1..n }

Trees == UNION { TreesOfSize(Names, Urls, n) : n \in 1..MaxNodes }

-----------------------------------------------------------------------------
(* process_catalogue *)

SEPARATOR == " -> "

IsInternal(category) == "children" \in DOMAIN category

ChildPrefix(category, parent_name) == parent_name \o category.name \o SEPARATOR

LeafEntry_dropsPrefix(category, parent_name) ==
    [name |-> category.name, url |-> category.url]

LeafEntry(category, parent_name) ==
    [name |-> parent_name \o category.name, url |-> category.url]

\* traverse_json appends to the enclosing flattened_catalogue; here it returns
\* what it appends, in the order it appends it.
RECURSIVE traverse_json(_, _), traverse_children(_, _)
traverse_json(category, parent_name) ==
    IF IsInternal(category)
    THEN traverse_children(category.children, ChildPrefix(category, parent_name))
    ELSE << LeafEntry(category, parent_name) >>

traverse_children(children, prefix) ==
    IF children = <<>> THEN <<>>
    ELSE traverse_json(Head(children), prefix) \o traverse_children(Tail(children), prefix)

Reverse(s) == [i \in 1..Len(s) |-> s[Len(s) + 1 - i]]

process_catalogue_prepends(json) == Reverse(traverse_json(json, ""))

process_catalogue(json) == traverse_json(json, "")

-----------------------------------------------------------------------------
(* The remote endpoints. *)

CATALOGUE_URL == "https://search.wb.ru/catalog.json"

ProductCardsUrl_usesName(category) == "https://search.wb.ru/catalog/" \o category.name

\* f'https://search.wb.ru/catalog/{category_url}'
ProductCardsUrl(category) == "https://search.wb.ru/catalog/" \o category.url

NotJson == [text |-> "<html>"]            \* a body that is not JSON
Lost == [error |-> "ConnectionError"]     \* requests.get raised: no response was received
Pending == [pending |-> TRUE]             \* requests.get has not returned yet

Statuses == {200, 404}

\* Catalogues the catalogue endpoint may serve.
CatalogueTrees == UNION { TreesOfSize({"c"}, {}, n) : n \in 1..MaxCatNodes }

\* Sequences of product records of length at most n.
RECURSIVE SeqsUpTo(_, _)
SeqsUpTo(S, n) ==
    IF n <= 0 THEN { <<>> }
    ELSE LET shorter == SeqsUpTo(S, n - 1)
         IN  shorter \cup { Append(s, x) : s \in { t \in shorter : Len(t) = n - 1 }, x \in S }

\* JSON bodies of the product-listing endpoint: an object with a "products"
\* member, or an object without one.
ListingBodies(n) ==
    [products : SeqsUpTo(Products, n)] \cup { [state |-> 0] }

CatalogueReplies ==
    { Lost } \cup [status : Statuses, body : { NotJson } \cup CatalogueTrees]

ListingReplies(n) ==
    { Lost } \cup [status : Statuses, body : { NotJson } \cup ListingBodies(n)]

\* response.raise_for_status()
RaisesForStatus_never(reply) == FALSE

RaisesForStatus(reply) == reply.status >= 400

\* response.json() raises on a body that is not JSON
JsonFails(reply) == reply.body = NotJson

-----------------------------------------------------------------------------
(* The parser's methods, one step per blocking call they make. *)

Methods == {"main", "parse_product_cards", "write_to_database", "write_to_excel"}

Entry(method) ==
    CASE method = "main" -> "download"
      [] method = "parse_product_cards" -> "download"
      [] method = "write_to_database" -> "insert"
      [] method = "write_to_excel" -> "excel"

FirstStage(method) ==
    CASE method = "main" -> "fetch_catalogue"
      [] method = "parse_product_cards" -> "fetch_catalogue"
      [] method = "write_to_database" -> "write_database"
      [] method = "write_to_excel" -> "write_spreadsheet"

NextInMain_excelFirst(returned) ==
    CASE returned = "parse_product_cards" -> "excel"
      [] returned = "write_to_excel" -> "insert"
      [] returned = "write_to_database" -> "returned"

\* main(): parse_product_cards(); write_to_database(); write_to_excel()
NextInMain(returned) ==
    CASE returned = "parse_product_cards" -> "insert"
      [] returned = "write_to_database" -> "excel"
      [] returned = "write_to_excel" -> "returned"

StageAt(p) ==
    CASE p = "insert" -> <<"write_database">>
      [] p = "excel" -> <<"write_spreadsheet">>
      [] OTHER -> <<>>

Extend_replaces(cards, products) == products

Extend_dedups(cards, products) ==
    cards \o SelectSeq(products, LAMBDA p : \A i \in 1..Len(cards) : cards[i] # p)

\* list.extend
Extend(cards, products) == cards \o products

NextCard_stuck(i) == 1

NextCard(i) == i + 1

Running == pc \notin {"idle", "returned", "raised"}

\* A method is called on the parser from outside.
Call(method) ==
    /\ ~Running
    /\ ncalls < MaxCalls
    /\ top' = method
    /\ pc' = Entry(method)
    /\ idx' = 1
    /\ catalogue' = <<>>
    /\ exc' = None
    /\ http_log' = <<>>
    /\ writes' = <<>>
    /\ stages' = <<FirstStage(method)>>
    /\ ncalls' = ncalls + 1
    /\ UNCHANGED <<product_cards, db, xlsx, tree, flattened_catalogue>>

\* An exception nobody catches ends the outermost call.
Raise(e) ==
    /\ pc' = "raised"
    /\ exc' = e
    /\ UNCHANGED <<top, ncalls, stages, tree, flattened_catalogue>>

\* The method `returned` returns normally to its caller.
Return(returned) ==
    LET next == IF top = "main" THEN NextInMain(returned) ELSE "returned"
    IN  /\ pc' = next
        /\ idx' = 1
        /\ stages' = stages \o StageAt(next)
        /\ UNCHANGED <<top, ncalls, exc, tree, flattened_catalogue>>

\* download_current_catalogue: requests.get(catalogue_url, ...) is issued.
RequestCatalogue ==
    /\ pc = "download"
    /\ http_log' = Append(http_log, [url |-> CATALOGUE_URL, reply |-> Pending])
    /\ pc' = "download_wait"
    /\ UNCHANGED <<product_cards, db, xlsx, top, catalogue, idx, exc, writes,
                   stages, ncalls, tree, flattened_catalogue>>

Answered(log, reply) == [log EXCEPT ![Len(log)].reply = reply]

\* requests.get returns or raises; then raise_for_status, json(), and
\* process_catalogue on the result.
CatalogueReply ==
    /\ pc = "download_wait"
    /\ \E reply \in CatalogueReplies :
         /\ http_log' = Answered(http_log, reply)
         /\ IF reply = Lost THEN
              Raise("ConnectionError") /\ UNCHANGED <<catalogue, idx>>
            ELSE IF RaisesForStatus(reply) THEN
              Raise("HTTPError") /\ UNCHANGED <<catalogue, idx>>
            ELSE IF JsonFails(reply) THEN
              Raise("JSONDecodeError") /\ UNCHANGED <<catalogue, idx>>
            ELSE
              /\ catalogue' = process_catalogue(reply.body)
              /\ idx' = 1
              /\ pc' = "fetch"
              /\ stages' = stages \o <<"flatten", "fetch_products">>
              /\ UNCHANGED <<top, ncalls, exc, tree, flattened_catalogue>>
    /\ UNCHANGED <<product_cards, db, xlsx, writes>>

\* for category in catalogue: requests.get(product_cards_url, ...) is issued.
RequestListing ==
    /\ pc = "fetch"
    /\ idx <= Len(catalogue)
    /\ http_log' = Append(http_log, [url |-> ProductCardsUrl(catalogue[idx]), reply |-> Pending])
    /\ pc' = "fetch_wait"
    /\ UNCHANGED <<product_cards, db, xlsx, top, catalogue, idx, exc, writes,
                   stages, ncalls, tree, flattened_catalogue>>

\* requests.get returns or raises; then .json(), response['products'] and extend.
ListingReply ==
    /\ pc = "fetch_wait"
    /\ \E reply \in ListingReplies(MaxCards - Len(product_cards)) :
         /\ http_log' = Answered(http_log, reply)
         /\ IF reply = Lost THEN
              Raise("ConnectionError") /\ UNCHANGED <<product_cards, idx>>
            ELSE IF JsonFails(reply) THEN
              Raise("JSONDecodeError") /\ UNCHANGED <<product_cards, idx>>
            ELSE IF "products" \notin DOMAIN reply.body THEN
              Raise("KeyError") /\ UNCHANGED <<product_cards, idx>>
            ELSE
              /\ product_cards' = Extend(product_cards, reply.body.products)
              /\ idx' = idx + 1
              /\ pc' = "fetch"
              /\ UNCHANGED <<top, ncalls, exc, stages, tree, flattened_catalogue>>
    /\ UNCHANGED <<db, xlsx, catalogue, writes>>

\* The for loop of parse_product_cards is exhausted: the method returns.
ParseReturns ==
    /\ pc = "fetch"
    /\ idx > Len(catalogue)
    /\ Return("parse_product_cards")
    /\ UNCHANGED <<product_cards, db, xlsx, catalogue, http_log, writes>>

\* for product_card in self.product_cards: chroma_db.insert_product_card
InsertProductCard ==
    /\ pc = "insert"
    /\ idx <= Len(product_cards)
    /\ \E ok \in BOOLEAN :
         /\ writes' = Append(writes, [op |-> "insert", record |-> product_cards[idx], ok |-> ok])
         /\ IF ok THEN
              /\ db' = Append(db, product_cards[idx])
              /\ idx' = NextCard(idx)
              /\ UNCHANGED <<top, pc, ncalls, exc, stages, tree, flattened_catalogue>>
            ELSE
              Raise("InsertError") /\ UNCHANGED <<db, idx>>
    /\ UNCHANGED <<product_cards, xlsx, catalogue, http_log>>

WriteToDatabaseReturns ==
    /\ pc = "insert"
    /\ idx > Len(product_cards)
    /\ Return("write_to_database")
    /\ UNCHANGED <<product_cards, db, xlsx, catalogue, http_log, writes>>

\* The sheet dataframe_to_rows yields: a header row, then a row per record.
Sheet(cards) == <<"header">> \o cards

\* write_to_excel: the workbook is built in memory and saved by wb.save.
WriteToExcel ==
    /\ pc = "excel"
    /\ \E ok \in BOOLEAN :
         /\ writes' = Append(writes, [op |-> "save", record |-> Sheet(product_cards), ok |-> ok])
         /\ IF ok THEN
              /\ xlsx' = Sheet(product_cards)
              /\ Return("write_to_excel")
            ELSE
              Raise("OSError") /\ UNCHANGED <<xlsx, idx>>
    /\ UNCHANGED <<product_cards, db, catalogue, http_log>>

Step ==
    \/ RequestCatalogue
    \/ CatalogueReply
    \/ RequestListing
    \/ ListingReply
    \/ ParseReturns
    \/ InsertProductCard
    \/ WriteToDatabaseReturns
    \/ WriteToExcel

-----------------------------------------------------------------------------
InitParser ==
    /\ product_cards = <<>>
    /\ db = <<>>
    /\ xlsx = <<>>
    /\ top = "idle"
    /\ pc = "idle"
    /\ catalogue = <<>>
    /\ idx = 0
    /\ exc = None
    /\ http_log = <<>>
    /\ writes = <<>>
    /\ stages = <<>>
    /\ ncalls = 0

(* A direct call of process_catalogue on a tree. *)
InitFlatten ==
    /\ InitParser
    /\ tree \in Trees
    /\ flattened_catalogue = <<>>

ProcessCatalogue ==
    /\ pc = "idle"
    /\ top' = "process_catalogue"
    /\ pc' = "returned"
    /\ flattened_catalogue' = process_catalogue(tree)
    /\ UNCHANGED <<product_cards, db, xlsx, catalogue, idx, exc, http_log, writes,
                   stages, ncalls, tree>>

NextFlatten == ProcessCatalogue

SpecFlatten == InitFlatten /\ [][NextFlatten]_vars

(* Calls on one parser, from its construction on. *)
Init ==
    /\ InitParser
    /\ tree = None
    /\ flattened_catalogue = <<>>

Next ==
    \/ \E method \in Methods : Call(method)
    \/ Step

Spec == Init /\ [][Next]_vars

(* One run of the program: a parser is constructed and main() is called. *)
NextMain ==
    \/ (ncalls = 0 /\ Call("main"))
    \/ Step

SpecMain == Init /\ [][NextMain]_vars

-----------------------------------------------------------------------------
(* Vocabulary of the properties. *)

IsPrefix(s, t) == Len(s) <= Len(t) /\ SubSeq(t, 1, Len(s)) = s

Range(s) == { s[i] : i \in 1..Len(s) }

\* Positions of the nodes of a tree: the child indices from the root down.
RECURSIVE Positions(_)
Positions(t) ==
    { <<>> } \cup
    IF "children" \in DOMAIN t
    THEN UNION { { <<i>> \o p : p \in Positions(t.children[i]) } : i \in 1..Len(t.children) }
    ELSE {}

RECURSIVE NodeAt(_, _)
NodeAt(t, p) == IF p = <<>> THEN t ELSE NodeAt(t.children[Head(p)], Tail(p))

\* The nodes that carry no children collection.
LeafPositions(t) == { p \in Positions(t) : "children" \notin DOMAIN NodeAt(t, p) }

\* The names from the root down to position p, each ancestor followed by " -> ".
RECURSIVE PathName(_, _)
PathName(t, p) ==
    IF p = <<>> THEN t.name
    ELSE t.name \o " -> " \o PathName(t.children[Head(p)], Tail(p))

ExpectedEntry(t, p) == [name |-> PathName(t, p), url |-> NodeAt(t, p).url]

\* p is left of q: at the first index where they differ, p takes the earlier child.
LeftOf(p, q) ==
    \E k \in 1..Len(p) :
        /\ k <= Len(q)
        /\ SubSeq(p, 1, k - 1) = SubSeq(q, 1, k - 1)
        /\ p[k] < q[k]

Occurrences(s, e) == Cardinality({ i \in 1..Len(s) : s[i] = e })

Flattened == top = "process_catalogue" /\ pc = "returned"

\* C1: process_catalogue returns one entry per node without a children
\* collection and none for any other node; the entry of a leaf is the names
\* from the root down to it joined by " -> ", with the leaf's url.
C1_OneEntryPerLeaf ==
    Flattened =>
        LET leaves == LeafPositions(tree)
        IN  /\ Len(flattened_catalogue) = Cardinality(leaves)
            /\ \A p \in leaves :
                 Occurrences(flattened_catalogue, ExpectedEntry(tree, p))
                   = Cardinality({ q \in leaves : ExpectedEntry(tree, q) = ExpectedEntry(tree, p) })

\* Root{Shoes, Bags{Totes}}
C1_Witness ==
    /\ Flattened
    /\ tree = [name |-> "a", children |->
                 << [name |-> "b", url |-> "u"],
                    [name |-> "b", children |-> << [name |-> "a", url |-> "v"] >>] >>]
    /\ flattened_catalogue = << [name |-> "a -> b", url |-> "u"],
                                [name |-> "a -> b -> a", url |-> "v"] >>

\* The tree with every empty children collection removed.
RECURSIVE StripEmpty(_)
StripEmpty(t) ==
    IF "children" \notin DOMAIN t THEN t
    ELSE IF t.children = <<>> THEN [name |-> t.name, url |-> t.url]
    ELSE [name |-> t.name,
          children |-> [i \in 1..Len(t.children) |-> StripEmpty(t.children[i])]]

EmptyChildrenHaveUrl(t) ==
    \A p \in Positions(t) :
        LET n == NodeAt(t, p)
        IN  ("children" \in DOMAIN n /\ n.children = <<>>) => "url" \in DOMAIN n

\* C2: a node whose children collection is present and empty is flattened as
\* the same node without a children field is: one entry, from the prefix, its
\* own name and its own url.
C2_EmptyChildrenIsLeaf ==
    (Flattened /\ EmptyChildrenHaveUrl(tree)) =>
        flattened_catalogue = process_catalogue(StripEmpty(tree))

\* C3: the entries come in the order of the tree: the entry of a leaf is at
\* the place given by the number of leaves left of it, so every leaf under an
\* earlier child precedes every leaf under a later child.
C3_ChildOrder ==
    Flattened =>
        LET leaves == LeafPositions(tree)
        IN  /\ Len(flattened_catalogue) = Cardinality(leaves)
            /\ \A p \in leaves :
                 flattened_catalogue[1 + Cardinality({ q \in leaves : LeftOf(q, p) })]
                   = ExpectedEntry(tree, p)

C3_Witness ==
    /\ Flattened
    /\ tree = [name |-> "a", children |->
                 << [name |-> "a", children |-> << [name |-> "b", url |-> "v"] >>],
                    [name |-> "b", url |-> "u"] >>]
    /\ flattened_catalogue = << [name |-> "a -> a -> b", url |-> "v"],
                                [name |-> "a -> b", url |-> "u"] >>

-----------------------------------------------------------------------------
Answered1(i) == http_log[i].reply # Pending

\* The i-th request was answered with status 200 and the JSON the caller expects.
Succeeded(i) ==
    LET r == http_log[i].reply
    IN  /\ r \notin {Pending, Lost}
        /\ r.status = 200
        /\ r.body # NotJson
        /\ (i > 1 => "products" \in DOMAIN r.body)

\* The i-th request, a product-listing request, failed: no response, a
\* non-success status, or a body without the products field.
ListingFailed(i) ==
    LET r == http_log[i].reply
    IN  /\ r # Pending
        /\ \/ r = Lost
           \/ r.status >= 400
           \/ "products" \notin DOMAIN r.body

\* parse_product_cards has returned normally in the current call.
ParseDone ==
    /\ top \in {"main", "parse_product_cards"}
    /\ \/ pc \in {"insert", "excel", "returned"}
       \/ pc = "raised" /\ exc \in {"InsertError", "OSError"}

\* write_to_database has returned normally in the current call.
DatabaseDone ==
    \/ top = "write_to_database" /\ pc = "returned"
    \/ top = "main" /\ (pc \in {"excel", "returned"} \/ (pc = "raised" /\ exc = "OSError"))

\* The products of the listing responses i..Len(http_log), concatenated.
RECURSIVE ServedFrom(_)
ServedFrom(i) ==
    IF i > Len(http_log) THEN <<>>
    ELSE http_log[i].reply.body.products \o ServedFrom(i + 1)

\* C4: when every request succeeded, the product collection of a fresh parser
\* is the concatenation of the responses' products, category by category, and
\* after parse_product_cards there is one response per category.
C4_Concatenation ==
    (ncalls = 1 /\ \A i \in 1..Len(http_log) : Succeeded(i)) =>
        /\ product_cards = ServedFrom(2)
        /\ ParseDone => Len(http_log) = 1 + Len(catalogue)

\* The same product served for two categories is kept twice.
C4_Witness ==
    /\ ncalls = 1 /\ ParseDone
    /\ \A i \in 1..Len(http_log) : Succeeded(i)
    /\ Len(catalogue) = 2
    /\ http_log[2].reply.body.products = <<"p1">>
    /\ http_log[3].reply.body.products = <<"p1">>
    /\ product_cards = <<"p1", "p1">>

\* C5: a product-listing request that fails (no response, non-success
\* status, no products field) ends the run at once: it is the last request,
\* and no sink operation happens.
C5_FailedListingAborts ==
    \A i \in 2..Len(http_log) :
        ListingFailed(i) => (i = Len(http_log) /\ pc = "raised" /\ writes = <<>>)

StageOrder ==
    <<"fetch_catalogue", "flatten", "fetch_products", "write_database", "write_spreadsheet">>

Saves == { i \in 1..Len(writes) : writes[i].op = "save" }

\* C6: main() enters the stages in the fixed order, returns only after the
\* last one, and a failure ends it where it is; after a failed insert no
\* spreadsheet is written.
C6_StageOrder ==
    top = "main" =>
        /\ IsPrefix(stages, StageOrder)
        /\ pc = "returned" => (stages = StageOrder /\ exc = None)
        /\ (pc = "raised") <=> (exc # None)
        /\ (writes # <<>>) => (\A i \in 1..Len(http_log) : Answered1(i)) /\ ParseDone
        /\ \A i \in Saves : i = Len(writes) /\ Len(writes) = Len(product_cards) + 1
        /\ \A i \in 1..Len(writes) :
             ~writes[i].ok => (pc = "raised" /\ i = Len(writes))
        /\ exc = "InsertError" => (Saves = {} /\ (ncalls = 1 => xlsx = <<>>))

C6_Witness ==
    /\ top = "main" /\ pc = "raised" /\ exc = "InsertError"
    /\ Len(writes) = 2 /\ writes[1].ok
    /\ db = <<product_cards[1]>>
    /\ xlsx = <<>>

Inserts == SelectSeq(writes, LAMBDA w : w.op = "insert")

NumInserted == Cardinality({ i \in 1..Len(Inserts) : Inserts[i].ok })

\* C7: write_to_database passes the records to insert_product_card one by
\* one in collection order; a failed insert ends it, with the records before
\* it inserted and none after it tried.
C7_InsertPerRecord ==
    /\ Len(Inserts) <= Len(product_cards)
    /\ \A k \in 1..Len(Inserts) :
         /\ Inserts[k].record = product_cards[k]
         /\ ~Inserts[k].ok => (k = Len(Inserts) /\ pc = "raised" /\ exc = "InsertError")
    /\ Len(db) >= NumInserted
    /\ SubSeq(db, Len(db) - NumInserted + 1, Len(db)) = SubSeq(product_cards, 1, NumInserted)
    /\ DatabaseDone => NumInserted = Len(product_cards)

C7_Witness ==
    /\ top = "write_to_database" /\ pc = "raised"
    /\ Len(product_cards) = 2
    /\ Len(Inserts) = 2 /\ Inserts[1].ok /\ ~Inserts[2].ok
    /\ db = <<product_cards[1]>>

\* C8: a call requests the catalogue once, first; when that request gets no
\* response or a non-success status the call ends there: no listing request,
\* no sink operation.
C8_CatalogueFailureAborts ==
    top \in {"main", "parse_product_cards"} =>
        /\ \A i \in 1..Len(http_log) :
             (http_log[i].url = "https://search.wb.ru/catalog.json") <=> (i = 1)
        /\ (Len(http_log) >= 1 /\ Answered1(1)
              /\ (http_log[1].reply = Lost \/ http_log[1].reply.status >= 400)) =>
               /\ pc = "raised"
               /\ Len(http_log) = 1
               /\ writes = <<>>
               /\ ncalls = 1 => (db = <<>> /\ xlsx = <<>>)

\* The status fails although the body is a catalogue with a category.
C8_Witness ==
    /\ top = "main" /\ pc = "raised" /\ exc = "HTTPError"
    /\ http_log[1].reply.status = 404
    /\ http_log[1].reply.body = [name |-> "c", url |-> "u"]
    /\ Len(http_log) = 1 /\ writes = <<>>

\* C9: the requests are the catalogue request, then one listing request per
\* flattened category in order, each to that category's url; a request is
\* issued only when every earlier one has been answered.
C9_RequestTrace ==
    top \in {"main", "parse_product_cards"} =>
        /\ Len(http_log) <= 1 + Len(catalogue)
        /\ \A i \in 1..Len(http_log) :
             /\ i < Len(http_log) => Answered1(i)
             /\ i = 1 => http_log[i].url = "https://search.wb.ru/catalog.json"
             /\ i > 1 => http_log[i].url = "https://search.wb.ru/catalog/" \o catalogue[i - 1].url
        /\ ParseDone => Len(http_log) = 1 + Len(catalogue)

C9_Witness ==
    /\ top = "main" /\ pc = "returned"
    /\ \A i \in 1..Len(http_log) : Succeeded(i)
    /\ Len(catalogue) = 2
    /\ catalogue[1].url = "v" /\ catalogue[2].url = "u"
    /\ Len(http_log) = 3

\* C10: product_cards only grows at its end: no step shortens or rewrites
\* it, the sinks and a failing step leave it as it is, and a database write
\* that completes has inserted every record of the collection, those of
\* earlier calls included.
C10_OnlyGrows ==
    [][ /\ IsPrefix(product_cards, product_cards')
        /\ pc \in {"insert", "excel"} => product_cards' = product_cards
        /\ pc' = "raised" => product_cards' = product_cards
        /\ DatabaseDone' =>
              [k \in 1..Len(Inserts') |-> Inserts'[k].record] = product_cards' ]_vars

\* A second main() kept the first run's record and inserted it again.
C10_Witness ==
    /\ ncalls = 2 /\ top = "main" /\ pc = "returned"
    /\ product_cards = <<"p1", "p2">>
    /\ db = <<"p1", "p1", "p2">>

====
